---- MODULE Spec2Model ----
(***************************************************************************)
(* Model of the interview session logic of interviewer-ai:                 *)
(*   src/interviewerai/models.py                 (domain records, metrics) *)
(*   src/interviewerai/interview/interviewer.py  (Interviewer operations)  *)
(*   src/interviewerai/main.py                   (Streamlit handlers)      *)
(*                                                                         *)
(* Python floats are modelled as reduced fractions [num, den]; texts are   *)
(* sequences of characters; uuid4() is a counter of fresh identifiers;     *)
(* datetime.now() is the naive local wall clock, which may read earlier    *)
(* than it did before.  The Streamlit handlers run as script runs, which   *)
(* may overlap; they are modelled statement by statement.                  *)
(***************************************************************************)
EXTENDS Integers, Sequences, FiniteSets, TLC

VARIABLES
    session,               \* the InterviewSession object in use, or None
    conversation_history,  \* st.session_state.conversation_history
    enable_scoring,        \* settings.interview.enable_scoring
    now,                   \* the value datetime.now() returns
    uuid,                  \* number of identifiers uuid4() has handed out
    held,                  \* the caller's locals: last question, answer, score
    runs,                  \* the Streamlit script runs in flight, oldest first
    out                    \* what the last operation returned or raised

vars == <<session, conversation_history, enable_scoring, now, uuid, held, runs,
         out>>

----------------------------------------------------------------------------
(* Bounds of the model *)

MaxTurns == 2      \* turns of a session handed to the Interviewer
MaxLen == 2        \* characters of a text the generation model returns
MaxTime == 1       \* last instant of the clock
MaxUuid == 3       \* identifiers uuid4() can hand out
MaxHistory == 2    \* entries of the UI conversation_history
MaxUiUuid == 5     \* identifiers uuid4() can hand out to the UI handlers
MaxRuns == 2       \* script runs of the UI in flight at once
MaxSamples == 3    \* samples of a waveform handed to the Transcriber

\* Optional[...] values: None is the empty tuple, a present value v is <<v>>
None == <<>>
Some(v) == <<v>>
Get(o) == o[1]

\* Python's `o or default`: None and the empty string are falsy
OrElse(o, default) == IF o = None \/ Get(o) = "" THEN default ELSE Get(o)

----------------------------------------------------------------------------
(* Floats as reduced fractions *)

RECURSIVE Gcd(_, _)
Gcd(a, b) == IF b = 0 THEN a ELSE Gcd(b, a % b)

Abs(n) == IF n < 0 THEN -n ELSE n

\* n / d for d > 0
Rat(n, d) ==
    LET g == Gcd(Abs(n), d)
    IN  [num |-> n \div g, den |-> d \div g]

RatLeq(x, y) == x.num * y.den <= y.num * x.den

RatAdd(x, y) == Rat(x.num * y.den + y.num * x.den, x.den * y.den)

RatDivInt(x, n) == Rat(x.num, x.den * n)

Zero == Rat(0, 1)
Ten == Rat(10, 1)

----------------------------------------------------------------------------
(* Sequence helpers *)

SeqsUpTo(S, n) == UNION {[1..k -> S] : k \in 0..n}

----------------------------------------------------------------------------
(* models.py: enumerations *)

BEHAVIORAL == "behavioral"
TECHNICAL == "technical"
SITUATIONAL == "situational"
PROBLEM_SOLVING == "problem-solving"
LEADERSHIP == "leadership"
CULTURE_FIT == "culture-fit"

QuestionType ==
    {BEHAVIORAL, TECHNICAL, SITUATIONAL, PROBLEM_SOLVING, LEADERSHIP, CULTURE_FIT}

InterviewPosition ==
    {"Software Engineer", "Data Scientist", "Product Manager", "DevOps Engineer",
     "Frontend Developer", "Backend Developer", "Full Stack Developer",
     "Machine Learning Engineer"}

PROFESSIONAL_FRIENDLY == "professional_friendly"
CHALLENGING == "challenging"

InterviewerPersonality ==
    {PROFESSIONAL_FRIENDLY, CHALLENGING, "supportive", "formal", "casual"}

----------------------------------------------------------------------------
(* models.py: records.  A constructor that pydantic rejects returns        *)
(* ValidationError instead of a record.                                    *)

ValidationError == [error |-> "ValidationError"]

Question(id, text, type, position, difficulty, category) ==
    [id |-> id, text |-> text, type |-> type, position |-> position,
     difficulty |-> difficulty, category |-> category]

Answer(id, question_id, text) ==
    [id |-> id, question_id |-> question_id, text |-> text]

\* variant of ScoreInRange that forgets the upper limit
ScoreInRangeNoUpper(overall_score) == RatLeq(Zero, overall_score)

\* Field(..., ge=0.0, le=10.0) on overall_score
ScoreInRange(overall_score) ==
    RatLeq(Zero, overall_score) /\ RatLeq(overall_score, Ten)

Score(answer_id, overall_score, criteria_scores, feedback, suggestions) ==
    IF ScoreInRange(overall_score)
    THEN [answer_id |-> answer_id, overall_score |-> overall_score,
          criteria_scores |-> criteria_scores, feedback |-> feedback,
          suggestions |-> suggestions]
    ELSE ValidationError

ConversationTurn(id, question, answer, score) ==
    [id |-> id, question |-> question, answer |-> answer, score |-> score]

InterviewSession(id, position, personality, start_time, turns) ==
    [id |-> id, position |-> position, interviewer_personality |-> personality,
     start_time |-> start_time, end_time |-> None,
     conversation_turns |-> turns, total_score |-> None]

InterviewRequest(position, question_type, difficulty, category) ==
    IF difficulty # None /\ Get(difficulty) # ""
       /\ Get(difficulty) \notin {"easy", "medium", "hard"}
    THEN ValidationError
    ELSE [position |-> position, question_type |-> question_type,
          difficulty |-> difficulty, category |-> category]

InterviewResponse(question, follow_up_questions, tips, expected_key_points) ==
    [question |-> question, follow_up_questions |-> follow_up_questions,
     tips |-> tips, expected_key_points |-> expected_key_points]

----------------------------------------------------------------------------
(* models.py: derived metrics of InterviewSession *)

\* [turn for turn in self.conversation_turns if turn.score]
RECURSIVE ScoredTurns(_)
ScoredTurns(turns) ==
    IF turns = <<>> THEN <<>>
    ELSE IF Head(turns).score # None
         THEN <<Head(turns)>> \o ScoredTurns(Tail(turns))
         ELSE ScoredTurns(Tail(turns))

\* sum(turn.score.overall_score for turn in scored_turns)
RECURSIVE SumScores(_)
SumScores(turns) ==
    IF turns = <<>> THEN Zero
    ELSE RatAdd(Get(Head(turns).score).overall_score, SumScores(Tail(turns)))

duration_minutes(s) ==
    IF s.end_time # None
    THEN Some(Rat(Get(s.end_time) - s.start_time, 60))
    ELSE None

questions_asked(s) == Len(s.conversation_turns)

answers_given(s) ==
    Cardinality({i \in DOMAIN s.conversation_turns :
                    s.conversation_turns[i].answer # None})

\* variant of average_score that divides by the number of all turns
average_score_all_turns(s) ==
    LET scored_turns == ScoredTurns(s.conversation_turns)
    IN  IF scored_turns = <<>> THEN None
        ELSE Some(RatDivInt(SumScores(scored_turns), Len(s.conversation_turns)))

average_score(s) ==
    LET scored_turns == ScoredTurns(s.conversation_turns)
    IN  IF scored_turns = <<>> THEN None
        ELSE Some(RatDivInt(SumScores(scored_turns), Len(scored_turns)))

----------------------------------------------------------------------------
(* Texts.  A text is a sequence of characters; a canned text of the source *)
(* is a one-element sequence holding the whole string.                     *)

SPACE == " "
DQUOTE == "\""
SQUOTE == "'"

Chars == {"a", SPACE, DQUOTE, SQUOTE}

RECURSIVE LStrip(_, _)
LStrip(text, c) ==
    IF text # <<>> /\ Head(text) = c THEN LStrip(Tail(text), c) ELSE text

RECURSIVE RStrip(_, _)
RStrip(text, c) ==
    IF text # <<>> /\ text[Len(text)] = c
    THEN RStrip(SubSeq(text, 1, Len(text) - 1), c)
    ELSE text

\* str.strip() for c = SPACE, str.strip(c) otherwise
Strip(text, c) == RStrip(LStrip(text, c), c)

----------------------------------------------------------------------------
(* What the generation model does with one prompt: generate_content raises *)
(* (or .text raises), or response.text is a text, possibly the empty one.  *)

Raises == [kind |-> "raise"]
Returns(text) == [kind |-> "text", text |-> text]

----------------------------------------------------------------------------
(* interviewer.py: question generation *)

_parse_question_response(response_text, request, id) ==
    LET question_text == Strip(Strip(Strip(response_text, SPACE), DQUOTE), SQUOTE)
    IN  Question(id, question_text,
                 OrElse(request.question_type, BEHAVIORAL),
                 request.position,
                 OrElse(request.difficulty, "medium"),
                 OrElse(request.category, ""))

_generate_follow_up_questions ==
    << <<"Can you provide a specific example?">>,
       <<"What was the outcome of that situation?">>,
       <<"What would you do differently next time?">> >>

_generate_tips(question) ==
    CASE question.type = BEHAVIORAL ->
            << <<"Use the STAR method (Situation, Task, Action, Result)">>,
               <<"Provide specific examples from your experience">>,
               <<"Focus on your role and contributions">> >>
      [] question.type = TECHNICAL ->
            << <<"Explain your thought process step by step">>,
               <<"Consider edge cases and trade-offs">>,
               <<"Be honest about what you don't know">> >>
      [] question.type = SITUATIONAL ->
            << <<"Understand the problem before jumping to solutions">>,
               <<"Consider multiple approaches">>,
               <<"Explain your reasoning clearly">> >>
      [] OTHER ->
            << <<"Think before you speak">>, <<"Provide concrete examples">> >>

_generate_expected_points ==
    << <<"Clear problem understanding">>, <<"Logical approach">>,
       <<"Specific examples">>, <<"Results and outcomes">>,
       <<"Learning and growth">> >>

\* variant of the fallback table without the problem-solving entry
fallback_questions_three_keys(question_type) ==
    CASE question_type = TECHNICAL ->
            <<"How would you approach debugging a complex system issue?">>
      [] question_type = SITUATIONAL ->
            <<"If you were given a project with unclear requirements, how would you proceed?">>
      [] OTHER ->
            <<"Tell me about a time when you had to overcome a significant challenge at work.">>

fallback_questions(question_type) ==
    CASE question_type = BEHAVIORAL ->
            <<"Tell me about a time when you had to overcome a significant challenge at work.">>
      [] question_type = TECHNICAL ->
            <<"How would you approach debugging a complex system issue?">>
      [] question_type = SITUATIONAL ->
            <<"If you were given a project with unclear requirements, how would you proceed?">>
      [] question_type = PROBLEM_SOLVING ->
            <<"Describe a problem you solved that required creative thinking.">>
      [] OTHER ->
            <<"Tell me about a time when you had to overcome a significant challenge at work.">>

_generate_fallback_question(request, id) ==
    LET question_type == OrElse(request.question_type, BEHAVIORAL)
        question == Question(id, fallback_questions(question_type),
                             question_type, request.position,
                             OrElse(request.difficulty, "medium"),
                             OrElse(request.category, ""))
    IN  InterviewResponse(question, <<>>, <<>>, <<>>)

personality_traits(personality) ==
    CASE personality = PROFESSIONAL_FRIENDLY -> "professional yet warm and encouraging"
      [] personality = CHALLENGING -> "challenging and thought-provoking"
      [] personality = "supportive" -> "supportive and helpful"
      [] personality = "formal" -> "formal and business-like"
      [] personality = "casual" -> "casual and conversational"
      [] OTHER -> "professional"

\* the parts of the question prompt that vary: what the f-string puts in
_build_question_prompt(request, s) ==
    [personality |-> personality_traits(s.interviewer_personality),
     position |-> request.position,
     question_type |-> OrElse(request.question_type, "behavioral"),
     difficulty |-> OrElse(request.difficulty, "medium"),
     focus |-> IF request.category = None \/ request.category = Some("")
               THEN None ELSE request.category,
     previous_questions |->
        [i \in DOMAIN s.conversation_turns |-> s.conversation_turns[i].question.text]]

\* variant of generate_question without the except clause: a failure of the
\* generation model leaves the operation
generate_question_no_except(request, s, outcome, id) ==
    IF outcome.kind = "raise" THEN [error |-> "GenerationFailure"]
    ELSE IF outcome.text = <<>> THEN [error |-> "ValueError"]
    ELSE LET question == _parse_question_response(outcome.text, request, id)
         IN  InterviewResponse(question,
                               _generate_follow_up_questions,
                               _generate_tips(question),
                               _generate_expected_points)

\* The InterviewResponse generate_question returns; id is the uuid4() it draws.
\* Every exception of the try block ends in the fallback question.
generate_question(request, s, outcome, id) ==
    IF outcome.kind = "raise" \/ outcome.text = <<>>
    THEN _generate_fallback_question(request, id)
    ELSE LET question == _parse_question_response(outcome.text, request, id)
         IN  InterviewResponse(question,
                               _generate_follow_up_questions,
                               _generate_tips(question),
                               _generate_expected_points)

----------------------------------------------------------------------------
(* interviewer.py: conversation *)

\* variant of conduct_conversational_interview that returns response.text
\* as it came
conduct_conversational_interview_no_strip(user_response, s, last_question, outcome) ==
    IF outcome.kind = "raise"
    THEN <<"Thank you for your response. Let's continue with the next question.">>
    ELSE IF outcome.text = <<>>
    THEN <<"I appreciate your response. Let me ask you another question to continue our conversation.">>
    ELSE outcome.text

conduct_conversational_interview(user_response, s, last_question, outcome) ==
    IF outcome.kind = "raise"
    THEN <<"Thank you for your response. Let's continue with the next question.">>
    ELSE IF outcome.text = <<>>
    THEN <<"I appreciate your response. Let me ask you another question to continue our conversation.">>
    ELSE Strip(outcome.text, SPACE)

----------------------------------------------------------------------------
(* interviewer.py: scoring.  A scoring response is a sequence of tokens:   *)
(* an opening brace, a closing brace, a run of text without braces, or the *)
(* members of one well-formed JSON object (nested braces included).        *)

LBRACE == [tok |-> "{"]
RBRACE == [tok |-> "}"]
TEXT == [tok |-> "text"]
Members(data) == [tok |-> "members", data |-> data]

\* JSON values of the fields the parser reads
JAbsent == [kind |-> "absent"]
JNull == [kind |-> "null"]
JNum(r) == [kind |-> "num", val |-> r]
JStr(str) == [kind |-> "str", val |-> str]
JObj(pairs) == [kind |-> "obj", val |-> pairs]
JList(items) == [kind |-> "list", val |-> items]

EmptyObject ==
    [overall_score |-> JAbsent, criteria_scores |-> JAbsent,
     feedback |-> JAbsent, suggestions |-> JAbsent]

\* re.search(r'\{.*\}', response_text, re.DOTALL): from the first opening
\* brace to the last closing brace after it; None when there is no match
JsonMatch(response_text) ==
    LET opens == {i \in DOMAIN response_text : response_text[i] = LBRACE}
    IN  IF opens = {} THEN None
        ELSE LET first == CHOOSE i \in opens : \A k \in opens : i <= k
                 closes == {j \in DOMAIN response_text :
                               j > first /\ response_text[j] = RBRACE}
             IN  IF closes = {} THEN None
                 ELSE LET last == CHOOSE j \in closes : \A k \in closes : k <= j
                      IN  Some(SubSeq(response_text, first, last))

\* variant of json.loads that reads any brace-delimited text it cannot
\* parse as the empty object
JsonLoadsLenient(json_str) ==
    IF Len(json_str) = 3 /\ json_str[1] = LBRACE /\ json_str[3] = RBRACE
       /\ json_str[2].tok = "members"
    THEN Some(json_str[2].data)
    ELSE Some(EmptyObject)

\* json.loads(json_str): the object, or None for a JSONDecodeError
JsonLoads(json_str) ==
    IF json_str = <<LBRACE, RBRACE>> THEN Some(EmptyObject)
    ELSE IF Len(json_str) = 3 /\ json_str[1] = LBRACE /\ json_str[3] = RBRACE
            /\ json_str[2].tok = "members"
    THEN Some(json_str[2].data)
    ELSE None

\* float("9") is 9.0; float of any other string here is a ValueError
StrToFloat(str) == IF str = "9" THEN Some(Rat(9, 1)) ELSE None

\* float(data.get("overall_score", 5.0)): None for TypeError / ValueError
ToFloat(v) ==
    CASE v.kind = "absent" -> Some(Rat(5, 1))
      [] v.kind = "num" -> Some(v.val)
      [] v.kind = "str" -> StrToFloat(v.val)
      [] OTHER -> None

\* data.get(key, default) checked against the field's declared type
FieldOr(v, kind, default) ==
    CASE v.kind = "absent" -> Some(default)
      [] v.kind = kind -> Some(v.val)
      [] OTHER -> None

ParserFallbackScore(answer_id) ==
    Score(answer_id, Rat(5, 1), {},
          "Unable to parse detailed scoring. General feedback: Consider providing more specific examples and structure in your responses.",
          <<"Use the STAR method for behavioral questions",
            "Provide concrete examples",
            "Structure your response clearly">>)

\* variant of _parse_scoring_response without the except clause: the
\* exceptions of json.loads, float and Score(...) leave the parser
_parse_scoring_response_no_except(response_text, answer_id) ==
    LET json_match == JsonMatch(response_text)
    IN  IF json_match = None THEN ParserFallbackScore(answer_id)
        ELSE IF JsonLoads(Get(json_match)) = None
        THEN [error |-> "JSONDecodeError"]
        ELSE LET data == Get(JsonLoads(Get(json_match)))
                 overall == ToFloat(data.overall_score)
                 criteria == FieldOr(data.criteria_scores, "obj", {})
                 feedback == FieldOr(data.feedback, "str", "No feedback provided")
                 suggestions == FieldOr(data.suggestions, "list", <<>>)
             IN  IF overall = None THEN [error |-> "TypeError"]
                 ELSE IF criteria = None \/ feedback = None \/ suggestions = None
                 THEN ValidationError
                 ELSE Score(answer_id, Get(overall), Get(criteria),
                            Get(feedback), Get(suggestions))

\* variant of _parse_scoring_response that takes a block only when it has
\* all four fields
_parse_scoring_response_all_or_nothing(response_text, answer_id) ==
    LET json_match == JsonMatch(response_text)
        data == IF json_match = None THEN None ELSE JsonLoads(Get(json_match))
    IN  IF data = None THEN ParserFallbackScore(answer_id)
        ELSE LET overall == ToFloat(Get(data).overall_score)
                 criteria == FieldOr(Get(data).criteria_scores, "obj", {})
                 feedback == FieldOr(Get(data).feedback, "str", "No feedback provided")
                 suggestions == FieldOr(Get(data).suggestions, "list", <<>>)
             IN  IF \/ overall = None \/ criteria = None
                    \/ feedback = None \/ suggestions = None
                    \/ JAbsent \in {Get(data).overall_score, Get(data).criteria_scores,
                                    Get(data).feedback, Get(data).suggestions}
                 THEN ParserFallbackScore(answer_id)
                 ELSE LET score == Score(answer_id, Get(overall), Get(criteria),
                                         Get(feedback), Get(suggestions))
                      IN  IF score = ValidationError
                          THEN ParserFallbackScore(answer_id)
                          ELSE score

_parse_scoring_response(response_text, answer_id) ==
    LET json_match == JsonMatch(response_text)
        data == IF json_match = None THEN None ELSE JsonLoads(Get(json_match))
    IN  IF data = None THEN ParserFallbackScore(answer_id)
        ELSE LET overall == ToFloat(Get(data).overall_score)
                 criteria == FieldOr(Get(data).criteria_scores, "obj", {})
                 feedback == FieldOr(Get(data).feedback, "str", "No feedback provided")
                 suggestions == FieldOr(Get(data).suggestions, "list", <<>>)
             IN  IF overall = None \/ criteria = None \/ feedback = None
                    \/ suggestions = None
                 THEN ParserFallbackScore(answer_id)
                 ELSE LET score == Score(answer_id, Get(overall), Get(criteria),
                                         Get(feedback), Get(suggestions))
                      IN  IF score = ValidationError
                          THEN ParserFallbackScore(answer_id)
                          ELSE score

\* variant of ErrorFallbackScore that names no answer
ErrorFallbackScoreUnnamed(answer_id) ==
    Score(<<"unknown", 0>>, Rat(5, 1), {},
          "Unable to score this answer due to an error.",
          <<"Please try to provide a more detailed response next time.">>)

\* the Score of the except clause of score_answer
ErrorFallbackScore(answer_id) ==
    Score(answer_id, Rat(5, 1), {},
          "Unable to score this answer due to an error.",
          <<"Please try to provide a more detailed response next time.">>)

\* variant of score_answer without the except clause: a failure of the
\* generation model, or its empty text, leaves the operation
score_answer_no_except(question, answer, s, outcome) ==
    IF outcome.kind = "raise" THEN [error |-> "GenerationFailure"]
    ELSE IF outcome.text = <<>> THEN [error |-> "ValueError"]
    ELSE _parse_scoring_response(outcome.text, answer.id)

\* variant of score_answer that labels the Score with the question's id
score_answer_question_id(question, answer, s, outcome) ==
    IF outcome.kind = "raise" \/ outcome.text = <<>>
    THEN ErrorFallbackScore(question.id)
    ELSE _parse_scoring_response(outcome.text, question.id)

\* The Score score_answer returns; the session is only read for the prompt
score_answer(question, answer, s, outcome) ==
    IF outcome.kind = "raise" \/ outcome.text = <<>>
    THEN ErrorFallbackScore(answer.id)
    ELSE _parse_scoring_response(outcome.text, answer.id)

----------------------------------------------------------------------------
(* interviewer.py: session start and end *)

start_interview_session(position, personality, id, time) ==
    InterviewSession(id, position, personality, time, <<>>)

\* variant of end_interview_session that divides by the number of all turns
end_interview_session_all_turns(s, scoring, time) ==
    LET scored_turns == ScoredTurns(s.conversation_turns)
        ended == [s EXCEPT !.end_time = Some(time)]
    IN  IF scoring /\ scored_turns # <<>>
        THEN [ended EXCEPT !.total_score =
                 Some(RatDivInt(SumScores(scored_turns), Len(s.conversation_turns)))]
        ELSE ended

\* variant of end_interview_session that computes the total and leaves
\* end_time as it was
end_interview_session_no_end_time(s, scoring, time) ==
    LET scored_turns == ScoredTurns(s.conversation_turns)
    IN  IF scoring /\ scored_turns # <<>>
        THEN [s EXCEPT !.total_score =
                 Some(RatDivInt(SumScores(scored_turns), Len(scored_turns)))]
        ELSE s

end_interview_session(s, scoring, time) ==
    LET scored_turns == ScoredTurns(s.conversation_turns)
        ended == [s EXCEPT !.end_time = Some(time)]
    IN  IF scoring /\ scored_turns # <<>>
        THEN [ended EXCEPT !.total_score =
                 Some(RatDivInt(SumScores(scored_turns), Len(scored_turns)))]
        ELSE ended

----------------------------------------------------------------------------
(* transcriber.py and the audio models.  audio_bytes holds float32 samples *)
(* and `spare` bytes beyond a multiple of four; a sample is a fraction.    *)

AudioBytes(samples, spare) == [samples |-> samples, spare |-> spare]

\* validate_sample_rate rejects a rate that is not positive
AudioInput(audio_bytes, sample_rate) ==
    IF sample_rate <= 0 THEN [error |-> "ValidationError"]
    ELSE [audio_bytes |-> audio_bytes, sample_rate |-> sample_rate,
          format |-> "wav", duration_seconds |-> None]

\* confidence carries ge=0.0, le=1.0
TranscriptionResult(text, confidence, language, segments, processing_time) ==
    IF RatLeq(Zero, confidence) /\ RatLeq(confidence, Rat(1, 1))
    THEN [text |-> text, confidence |-> confidence, language |-> language,
          segments |-> segments, processing_time |-> processing_time]
    ELSE ValidationError

RatAbs(x) == Rat(Abs(x.num), x.den)

\* x / y for y > 0
RatDiv(x, y) == Rat(x.num * y.den, x.den * y.num)

\* the float32 value of 0 / 0
NaN == [num |-> 0, den |-> 0]

\* np.max(np.abs(audio_array)) of an array that is not empty
MaxAbs(audio_array) ==
    LET magnitudes == {RatAbs(audio_array[i]) : i \in DOMAIN audio_array}
    IN  CHOOSE m \in magnitudes : \A x \in magnitudes : RatLeq(x, m)

\* variant of _prepare_audio_data that divides by the peak without looking
\* at it: numpy turns 0 / 0 into NaN
_prepare_audio_data_unguarded(audio_input) ==
    LET audio_bytes == audio_input.audio_bytes
    IN  IF audio_bytes.spare # 0 \/ audio_bytes.samples = <<>>
        THEN [error |-> "ValueError"]
        ELSE LET audio_array == audio_bytes.samples
                 peak == MaxAbs(audio_array)
             IN  [array |-> [i \in DOMAIN audio_array |->
                                IF peak = Zero THEN NaN
                                ELSE RatDiv(audio_array[i], peak)]]

\* np.frombuffer raises ValueError on a buffer that is not a whole number
\* of samples, np.max on an empty array; both are logged and raised again
_prepare_audio_data(audio_input) ==
    LET audio_bytes == audio_input.audio_bytes
    IN  IF audio_bytes.spare # 0 THEN [error |-> "ValueError"]
        ELSE IF audio_bytes.samples = <<>> THEN [error |-> "ValueError"]
        ELSE LET audio_array == audio_bytes.samples
                 peak == MaxAbs(audio_array)
             IN  IF ~RatLeq(peak, Zero)
                 THEN [array |-> [i \in DOMAIN audio_array |->
                                     RatDiv(audio_array[i], peak)]]
                 ELSE [array |-> audio_array]

\* what self.model.transcribe does: it raises, or returns a dict with the
\* text and, possibly, a confidence
Transcript(text, confidence) ==
    [kind |-> "result", text |-> text, confidence |-> confidence]

\* the TranscriptionResult built from the dict of self.model.transcribe
ResultOf(outcome, processing_time) ==
    IF outcome.kind = "raise" THEN [error |-> "RuntimeError"]
    ELSE TranscriptionResult(Strip(outcome.text, SPACE),
                             IF outcome.confidence = None THEN Rat(4, 5)
                             ELSE Get(outcome.confidence),
                             "en", <<>>, processing_time)

\* variant of transcribe_audio_data that answers a failure with an empty
\* transcript
transcribe_audio_data_swallow(audio_input, outcome, processing_time) ==
    LET audio_array == _prepare_audio_data(audio_input)
        result == IF "error" \in DOMAIN audio_array THEN audio_array
                  ELSE ResultOf(outcome, processing_time)
    IN  IF "error" \in DOMAIN result
        THEN TranscriptionResult(<<>>, Zero, "en", <<>>, processing_time)
        ELSE result

transcribe_audio_data(audio_input, outcome, processing_time) ==
    LET audio_array == _prepare_audio_data(audio_input)
    IN  IF "error" \in DOMAIN audio_array THEN audio_array
        ELSE ResultOf(outcome, processing_time)

transcribe_audio_file(exists, outcome, processing_time) ==
    IF ~exists THEN [error |-> "FileNotFoundError"]
    ELSE ResultOf(outcome, processing_time)

----------------------------------------------------------------------------
(* Inputs of the operations *)

\* positions and personalities a session is started with
Positions == {"Software Engineer", "Data Scientist"}
Personalities == {PROFESSIONAL_FRIENDLY, CHALLENGING}

\* the instants datetime.now() may return next: it reads the local wall
\* clock, which stands, moves on, or falls back (end of daylight saving
\* time, the system clock set back)
Clock == 0..MaxTime

\* identifiers: those uuid4() draws, and those a caller writes by hand
Uuid(n) == <<"uuid", n>>
Id(kind, n) == <<kind, n>>

ResponseTexts == SeqsUpTo(Chars, MaxLen)

\* every outcome of the generation model on a question or conversation prompt
QuestionOutcomes == {Raises} \cup {Returns(text) : text \in ResponseTexts}

\* one outcome of each sort: raises, empty, plain, quoted
FewQuestionOutcomes ==
    {Raises, Returns(<<>>), Returns(<<"a">>), Returns(<<DQUOTE, "a">>)}

\* outcomes on a conversation prompt: those above, and texts with
\* whitespace before, after, and nothing else
ConverseOutcomes ==
    FewQuestionOutcomes
    \cup {Returns(<<SPACE, "a">>), Returns(<<"a", SPACE>>), Returns(<<SPACE>>)}

\* requests a caller of the Interviewer may build for a position
Requests(position) ==
    {InterviewRequest(position, question_type, difficulty, None) :
        question_type \in {None} \cup {Some(t) : t \in QuestionType},
        difficulty \in {None, Some("hard")}}

\* the request main.py builds (type and difficulty left to the model), and
\* one that names a type
FewRequests(position) ==
    {InterviewRequest(position, None, None, Some("")),
     InterviewRequest(position, Some(TECHNICAL), None, None)}

\* overall scores a caller may pass to Score(...)
ScoreInputs == {Rat(-1, 1), Rat(0, 1), Rat(6, 1), Rat(8, 1), Rat(10, 1), Rat(11, 1)}

\* overall scores of the turns of a session a caller builds
TurnScores == {Rat(0, 1), Rat(6, 1), Rat(8, 1)}

AnswerTexts == {<<"I led a migration...">>}

Block(o, c, f, g) ==
    [overall_score |-> o, criteria_scores |-> c, feedback |-> f, suggestions |-> g]

\* a block with all four fields
FullBlock(overall_score) ==
    Block(overall_score, JObj({<<"clarity", Rat(8, 1)>>}), JStr("Great"),
          JList(<<"A">>))

\* blocks with one field of the wrong JSON type
MisshapenBlocks ==
    {Block(JNum(Rat(9, 1)), c, JStr("Great"), JList(<<"A">>)) :
        c \in {JNull, JList(<<"A">>)}}
    \cup {Block(JNum(Rat(9, 1)), JObj({<<"clarity", Rat(8, 1)>>}), f, JList(<<"A">>)) :
             f \in {JNull, JNum(Rat(9, 1))}}
    \cup {Block(JNum(Rat(9, 1)), JObj({<<"clarity", Rat(8, 1)>>}), JStr("Great"), g) :
             g \in {JNull, JStr("A")}}

\* structured blocks a scoring response may hold: each field present or
\* not, and every sort of overall score
ScoreBlocks ==
    {Block(o, c, f, g) :
        o \in {JAbsent, JNum(Rat(9, 1))},
        c \in {JAbsent, JObj({<<"clarity", Rat(8, 1)>>})},
        f \in {JAbsent, JStr("Great")},
        g \in {JAbsent, JList(<<"A">>)}}
    \cup {FullBlock(o) :
             o \in {JNull, JStr("high"), JStr("9"), JNum(Rat(-1, 1)),
                    JNum(Rat(0, 1)), JNum(Rat(15, 2)), JNum(Rat(10, 1)),
                    JNum(Rat(11, 1))}}
    \cup MisshapenBlocks

\* responses with braces outside a block: unmatched ones, and ones around
\* a block with all four fields
StrayBraceTexts ==
    LET block == <<LBRACE, Members(FullBlock(JNum(Rat(9, 1)))), RBRACE>>
    IN  {<<LBRACE>>, <<TEXT, RBRACE>>, <<RBRACE, TEXT, LBRACE>>,
         <<RBRACE>> \o block, block \o <<LBRACE>>,
         block \o <<TEXT, RBRACE>>,
         <<LBRACE, TEXT, RBRACE, TEXT>> \o block,
         block \o block}

ScoringTexts ==
    {<<>>, <<TEXT>>, <<LBRACE, RBRACE>>, <<LBRACE, TEXT, RBRACE>>}
    \cup {<<LBRACE, Members(b), RBRACE>> : b \in ScoreBlocks}
    \cup {<<TEXT, LBRACE, Members(FullBlock(JNum(o))), RBRACE, TEXT>> :
             o \in {Rat(9, 1), Rat(11, 1)}}
    \cup StrayBraceTexts


\* every outcome of the generation model on a scoring prompt
ScoringOutcomes == {Raises} \cup {Returns(text) : text \in ScoringTexts}

\* one outcome of each sort: raises, no block, a block in range, one out of range
FewScoringOutcomes ==
    {Raises, Returns(<<TEXT>>),
     Returns(<<LBRACE, Members(FullBlock(JNum(Rat(9, 1)))), RBRACE>>),
     Returns(<<LBRACE, Members(FullBlock(JNum(Rat(11, 1)))), RBRACE>>)}

\* turns of a session a caller builds with the models: turn i holds
\* question i, optionally its answer, optionally that answer's score
TurnShapes ==
    {[answered |-> FALSE, score |-> None], [answered |-> TRUE, score |-> None]}
    \cup {[answered |-> TRUE, score |-> Some(v)] : v \in TurnScores}

BuildTurn(i, shape, position) ==
    LET question == Question(Id("q", i), <<"a">>, BEHAVIORAL, position, "medium", "")
        answer == Answer(Id("a", i), question.id, <<"a">>)
    IN  ConversationTurn(Id("t", i), question,
            IF shape.answered THEN Some(answer) ELSE None,
            IF shape.score = None THEN None
            ELSE Some(Score(answer.id, Get(shape.score), {}, "ok", <<>>)))

BuildTurns(shapes, position) ==
    [i \in DOMAIN shapes |-> BuildTurn(i, shapes[i], position)]

\* sample values whose quotients by a peak are exact in float32
SampleValues == {Rat(n, 1) : n \in {-2, -1, 0, 1, 2}}

Waveforms == SeqsUpTo(SampleValues, MaxSamples)

\* every waveform as a whole buffer, and one buffer cut short
AudioInputs ==
    {AudioInput(AudioBytes(samples, 0), 16000) : samples \in Waveforms}
    \cup {AudioInput(AudioBytes(<<Rat(1, 1)>>, 2), 16000)}

\* one audio input of each sort: silent, sounding, empty, cut short
FewAudioInputs ==
    {AudioInput(AudioBytes(<<Zero, Zero>>, 0), 16000),
     AudioInput(AudioBytes(<<Rat(1, 1), Rat(-2, 1)>>, 0), 16000),
     AudioInput(AudioBytes(<<>>, 0), 16000),
     AudioInput(AudioBytes(<<Rat(1, 1)>>, 2), 16000)}

\* sample rates a caller may construct an AudioInput with
SampleRates == {-1, 0, 1, 16000}

\* outcomes of self.model.transcribe
TranscribeOutcomes ==
    {Raises}
    \cup {Transcript(text, confidence) :
             text \in {<<>>, <<"a">>, <<SPACE, "a", SPACE>>},
             confidence \in {None, Some(Rat(1, 2)), Some(Rat(3, 2))}}

\* time.time() - start_time
ProcessingTimes == {0, 1}

\* difficulty strings a caller may pass to the models
DifficultyInputs == {"easy", "medium", "hard", "extreme", ""}

\* what a caller may put into a ConversationTurn around question q1: no
\* answer, an answer to q1 or to another question; no score, a score of
\* answer a1 or of another answer
TurnAnswers ==
    {None, Some(Answer(Id("a", 1), Id("q", 1), <<"a">>)),
     Some(Answer(Id("a", 1), Id("q", 2), <<"a">>))}

TurnScoreInputs ==
    {None, Some(Score(Id("a", 1), Rat(8, 1), {}, "ok", <<>>)),
     Some(Score(Id("a", 2), Rat(8, 1), {}, "ok", <<>>))}

----------------------------------------------------------------------------
(* State *)

NoHeld == [step |-> "off", question |-> None, answer |-> None, score |-> None]

\* an exception that leaves an operation is a record with an error field
IsError(value) == "error" \in DOMAIN value

\* what an operation was called with and what came of it: status is
\* "returned", or the name of the exception that left the operation (a UI
\* handler ended part-way has status "interrupted")
Result(op, args, value) ==
    [op |-> op, args |-> args,
     status |-> IF IsError(value) THEN value.error ELSE "returned",
     value |-> value]

Init ==
    /\ session = None
    /\ conversation_history = <<>>
    /\ enable_scoring \in BOOLEAN
    /\ now = 0
    /\ uuid = 0
    /\ held = NoHeld
    /\ runs = <<>>
    /\ out = Result("init", <<>>, [none |-> TRUE])

----------------------------------------------------------------------------
(* The operations of the Interviewer and the constructors of the models,   *)
(* as steps on the session in use.  None of them touches the UI history or *)
(* the caller's locals.                                                    *)

StartOp(position, personality, time) ==
    /\ uuid < MaxUuid
    /\ now' = time
    /\ uuid' = uuid + 1
    /\ session' = Some(start_interview_session(position, personality,
                                               Uuid(uuid + 1), time))
    /\ out' = Result("start_interview_session", <<position, personality>>,
                     Get(session'))
    /\ UNCHANGED enable_scoring

AskOp(request, outcome) ==
    /\ session # None
    /\ uuid < MaxUuid
    /\ uuid' = uuid + 1
    /\ out' = Result("generate_question",
                     [request |-> request, outcome |-> outcome],
                     generate_question(request, Get(session), outcome,
                                       Uuid(uuid + 1)))
    /\ UNCHANGED <<session, enable_scoring, now>>

ScoreOp(question, answer, outcome) ==
    /\ session # None
    /\ out' = Result("score_answer",
                     [question |-> question, answer |-> answer,
                      outcome |-> outcome],
                     score_answer(question, answer, Get(session), outcome))
    /\ UNCHANGED <<session, enable_scoring, now, uuid>>

ConverseOp(text, last_question, outcome) ==
    /\ session # None
    /\ out' = Result("conduct_conversational_interview",
                     [user_response |-> text, outcome |-> outcome],
                     [text |-> conduct_conversational_interview(
                                  text, Get(session), last_question, outcome)])
    /\ UNCHANGED <<session, enable_scoring, now, uuid>>

EndOp(time) ==
    /\ session # None
    /\ now' = time
    /\ session' = Some(end_interview_session(Get(session), enable_scoring, time))
    /\ out' = Result("end_interview_session", <<>>, Get(session'))
    /\ UNCHANGED <<enable_scoring, uuid>>

----------------------------------------------------------------------------
(* Spec: a caller drives the Interviewer directly *)

StartSession ==
    /\ \E position \in Positions, personality \in Personalities, time \in Clock :
          StartOp(position, personality, time)
    /\ UNCHANGED <<conversation_history, held, runs>>

\* a caller hands the Interviewer a session it built with the models
BuildSession ==
    /\ session = None
    /\ \E shapes \in SeqsUpTo(TurnShapes, MaxTurns) :
          session' = Some(InterviewSession(Id("s", 0), "Data Scientist",
                              PROFESSIONAL_FRIENDLY, now,
                              BuildTurns(shapes, "Data Scientist")))
    /\ out' = Result("InterviewSession", <<>>, Get(session'))
    /\ UNCHANGED <<conversation_history, enable_scoring, now, uuid, held, runs>>

Ask ==
    /\ session # None
    /\ \E request \in FewRequests(Get(session).position),
          outcome \in FewQuestionOutcomes :
          AskOp(request, outcome)
    /\ UNCHANGED <<conversation_history, held, runs>>

\* the caller answers the question it was just asked and has the answer scored
ScoreAsked ==
    /\ out.op = "generate_question"
    /\ out.status = "returned"
    /\ \E text \in AnswerTexts, outcome \in FewScoringOutcomes :
          LET question == out.value.question
          IN  ScoreOp(question, Answer(Id("a", 0), question.id, text), outcome)
    /\ UNCHANGED <<conversation_history, held, runs>>

\* score_answer on the question and answer of a turn of the session
ScoreTurn ==
    /\ session # None
    /\ \E i \in DOMAIN Get(session).conversation_turns,
          outcome \in FewScoringOutcomes :
          LET turn == Get(session).conversation_turns[i]
          IN  /\ turn.answer # None
              /\ ScoreOp(turn.question, Get(turn.answer), outcome)
    /\ UNCHANGED <<conversation_history, held, runs>>

Converse ==
    /\ \E text \in AnswerTexts, outcome \in ConverseOutcomes :
          ConverseOp(text, None, outcome)
    /\ UNCHANGED <<conversation_history, held, runs>>

EndSession ==
    /\ \E time \in Clock : EndOp(time)
    /\ UNCHANGED <<conversation_history, held, runs>>

Next ==
    \/ StartSession
    \/ BuildSession
    \/ Ask
    \/ ScoreAsked
    \/ ScoreTurn
    \/ Converse
    \/ EndSession

Spec == Init /\ [][Next]_vars

----------------------------------------------------------------------------
(* SpecScenario: one caller goes through start, ask, answer, score, end on *)
(* one session, keeping what each step returned                            *)

ScenarioStart ==
    /\ held.step = "off"
    /\ UNCHANGED runs
    /\ session = None
    /\ \E time \in Clock :
          StartOp("Data Scientist", PROFESSIONAL_FRIENDLY, time)
    /\ held' = [held EXCEPT !.step = "started"]
    /\ UNCHANGED conversation_history

ScenarioAsk ==
    /\ held.step = "started"
    /\ UNCHANGED runs
    /\ \E request \in FewRequests(Get(session).position),
          outcome \in QuestionOutcomes :
          AskOp(request, outcome)
    /\ held' = [held EXCEPT !.step = "asked",
                            !.question = Some(out'.value.question)]
    /\ UNCHANGED conversation_history

\* the caller wraps the user's text in an Answer to the question it holds
ScenarioAnswer ==
    /\ held.step = "asked"
    /\ UNCHANGED runs
    /\ uuid < MaxUuid
    /\ uuid' = uuid + 1
    /\ \E text \in AnswerTexts :
          out' = Result("Answer", [text |-> text],
                        Answer(Uuid(uuid + 1), Get(held.question).id, text))
    /\ held' = [held EXCEPT !.step = "answered", !.answer = Some(out'.value)]
    /\ UNCHANGED <<session, conversation_history, enable_scoring, now>>

ScenarioScore ==
    /\ held.step = "answered"
    /\ UNCHANGED runs
    /\ \E outcome \in ScoringOutcomes :
          ScoreOp(Get(held.question), Get(held.answer), outcome)
    /\ held' = [held EXCEPT !.step = "scored", !.score = Some(out'.value)]
    /\ UNCHANGED conversation_history

ScenarioEnd ==
    /\ held.step = "scored"
    /\ UNCHANGED runs
    /\ \E time \in Clock : EndOp(time)
    /\ held' = [held EXCEPT !.step = "ended"]
    /\ UNCHANGED conversation_history

NextScenario ==
    \/ ScenarioStart
    \/ ScenarioAsk
    \/ ScenarioAnswer
    \/ ScenarioScore
    \/ ScenarioEnd

SpecScenario == Init /\ [][NextScenario]_vars

----------------------------------------------------------------------------
(* SpecAsk: generate_question on every request and every outcome of the    *)
(* generation model, on the session of ScenarioStart                       *)

AskAny ==
    /\ session # None
    /\ \E request \in Requests(Get(session).position),
          outcome \in QuestionOutcomes :
          AskOp(request, outcome)
    /\ UNCHANGED <<conversation_history, held, runs>>

NextAsk == ScenarioStart \/ AskAny

SpecAsk == Init /\ [][NextAsk]_vars

----------------------------------------------------------------------------
(* SpecScore: every way a Score comes to exist: built by a caller, parsed  *)
(* from a scoring response, or substituted after a failure                 *)

\* Score(...) called directly with an overall score of the caller's choice
MakeScore ==
    /\ \E overall_score \in ScoreInputs :
          out' = Result("Score", [overall_score |-> overall_score],
                        Score(Id("a", 0), overall_score, {}, "ok", <<>>))
    /\ UNCHANGED <<session, conversation_history, enable_scoring, now, uuid, held, runs>>

\* score_answer on a question and an answer the caller built
ScoreAny ==
    /\ \E text \in AnswerTexts, outcome \in ScoringOutcomes :
          LET question == Question(Id("q", 0), <<"a">>, BEHAVIORAL,
                                   Get(session).position, "medium", "")
          IN  ScoreOp(question, Answer(Id("a", 0), question.id, text), outcome)
    /\ UNCHANGED <<conversation_history, held, runs>>

NextScore == ScenarioStart \/ BuildSession \/ MakeScore \/ ScoreAny

SpecScore == Init /\ [][NextScore]_vars

----------------------------------------------------------------------------
(* SpecParse: the parser of scoring responses on its own, on every         *)
(* response text                                                           *)

\* _parse_scoring_response on a response text and an answer id
ParseAny ==
    /\ \E response_text \in ScoringTexts, answer_id \in {Id("a", 0), Id("a", 1)} :
          out' = Result("_parse_scoring_response",
                        [response_text |-> response_text, answer_id |-> answer_id],
                        _parse_scoring_response(response_text, answer_id))
    /\ UNCHANGED <<session, conversation_history, enable_scoring, now, uuid, held, runs>>

NextParse == ParseAny

SpecParse == Init /\ [][NextParse]_vars

----------------------------------------------------------------------------
(* SpecAudio: the Transcriber on audio inputs and outcomes of the Whisper  *)
(* model                                                                   *)

PrepareAudio ==
    /\ \E audio_input \in AudioInputs :
          out' = Result("_prepare_audio_data", [audio_input |-> audio_input],
                        _prepare_audio_data(audio_input))
    /\ UNCHANGED <<session, conversation_history, enable_scoring, now, uuid, held, runs>>

TranscribeData ==
    /\ \E audio_input \in FewAudioInputs, outcome \in TranscribeOutcomes,
          processing_time \in ProcessingTimes :
          out' = Result("transcribe_audio_data",
                        [audio_input |-> audio_input, outcome |-> outcome],
                        transcribe_audio_data(audio_input, outcome, processing_time))
    /\ UNCHANGED <<session, conversation_history, enable_scoring, now, uuid, held, runs>>

TranscribeFile ==
    /\ \E exists \in BOOLEAN, outcome \in TranscribeOutcomes,
          processing_time \in ProcessingTimes :
          out' = Result("transcribe_audio_file",
                        [exists |-> exists, outcome |-> outcome],
                        transcribe_audio_file(exists, outcome, processing_time))
    /\ UNCHANGED <<session, conversation_history, enable_scoring, now, uuid, held, runs>>

\* a caller constructs an AudioInput
MakeAudioInput ==
    /\ \E samples \in {<<>>, <<Rat(1, 1)>>}, sample_rate \in SampleRates :
          out' = Result("AudioInput",
                        [samples |-> samples, sample_rate |-> sample_rate],
                        AudioInput(AudioBytes(samples, 0), sample_rate))
    /\ UNCHANGED <<session, conversation_history, enable_scoring, now, uuid, held, runs>>

NextAudio == PrepareAudio \/ TranscribeData \/ TranscribeFile \/ MakeAudioInput

SpecAudio == Init /\ [][NextAudio]_vars

----------------------------------------------------------------------------
(* SpecModels: a caller constructs the models of models.py directly        *)

\* Question(...) with a type and a difficulty of the caller's choice
MakeQuestion ==
    /\ \E type \in QuestionType, difficulty \in DifficultyInputs :
          out' = Result("Question", [type |-> type, difficulty |-> difficulty],
                        Question(Id("q", 1), <<"a">>, type, "Data Scientist",
                                 difficulty, ""))
    /\ UNCHANGED <<session, conversation_history, enable_scoring, now, uuid, held, runs>>

\* InterviewRequest(...) with a type and a difficulty of the caller's choice
MakeRequest ==
    /\ \E question_type \in {None} \cup {Some(t) : t \in QuestionType},
          difficulty \in {None} \cup {Some(d) : d \in DifficultyInputs} :
          out' = Result("InterviewRequest",
                        [question_type |-> question_type, difficulty |-> difficulty],
                        InterviewRequest("Data Scientist", question_type,
                                         difficulty, None))
    /\ UNCHANGED <<session, conversation_history, enable_scoring, now, uuid, held, runs>>

\* ConversationTurn(...) around one question, put into a new session
MakeTurn ==
    /\ \E answer \in TurnAnswers, score \in TurnScoreInputs :
          LET question == Question(Id("q", 1), <<"a">>, BEHAVIORAL,
                                   "Data Scientist", "medium", "")
              turn == ConversationTurn(Id("t", 1), question, answer, score)
          IN  /\ out' = Result("ConversationTurn",
                               [answer |-> answer, score |-> score], turn)
              /\ session' = Some(InterviewSession(Id("s", 0), "Data Scientist",
                                     PROFESSIONAL_FRIENDLY, now, <<turn>>))
    /\ UNCHANGED <<conversation_history, enable_scoring, now, uuid, held, runs>>

NextModels == MakeQuestion \/ MakeRequest \/ MakeTurn

SpecModels == Init /\ [][NextModels]_vars

----------------------------------------------------------------------------
(* main.py: the Streamlit handlers.  session is                            *)
(* st.session_state.current_session.  A click starts a script run: the     *)
(* script renders the page down to the clicked button and calls the        *)
(* handler.  A later click or widget change asks every run in flight to    *)
(* stop, and the new run starts at once, so runs overlap.  A statement     *)
(* that accesses st.session_state or calls a Streamlit element first       *)
(* checks for the request, where the run ends, and then does its work; a   *)
(* run that has passed the check of its statement when the request comes   *)
(* still executes the statement and what follows up to the next check.     *)
(* A run is followed statement by statement: pc is the line of main.py it  *)
(* executes next.  The handlers return nothing: `out` is left alone.  A    *)
(* local that refers to a history entry is kept as the entry's id; a local *)
(* that refers to a session is kept as the session, and follows what is    *)
(* done to that session.                                                   *)

UIAnswerTexts == {<<"first answer">>}

SKIPPED == <<"[Skipped]">>

\* the placeholder score of process_user_answer
PlaceholderScore ==
    [overall_score |-> Rat(15, 2),
     feedback |-> "Good answer! Consider providing more specific examples next time.",
     suggestions |-> <<"Use concrete examples from your experience",
                       "Structure your response more clearly",
                       "Explain the impact of your actions">>]

HistoryEntry(id, question, answer, score) ==
    [id |-> id, question |-> question, answer |-> answer, score |-> score]

\* the request generate_new_question builds
UIRequest(s) == InterviewRequest(s.position, None, None, Some(""))

\* the lines a run can stand at that begin with an access to
\* st.session_state or a Streamlit element call: the stop request is
\* checked there, before the statement; 530, 559 and 560 are plain writes
YieldLines ==
    {467, 472, 473, 488, 499, 510, 522, 527, 534, 557, 558, 589, 592, 610, 611}

\* a script run and the locals of its handler
ScriptRun(handler, pc, position, personality, answer_text) ==
    [session |-> None,                \* `session`
     position |-> position,
     personality |-> personality,
     turn |-> None,                   \* `turn`, the entry to append
     handler |-> handler,
     pc |-> pc,
     answer_text |-> answer_text,
     current_turn |-> None,           \* `current_turn`, by the entry's id
     stop |-> FALSE,
     prompt |-> None]                 \* the prompt generate_question builds

\* the generation model on the prompt of the UI returns a text
UIQuestionOutcomes == {Returns(<<"a">>)}

\* what the select boxes of the sidebar hold at a click on the start button
UISelections == {<<"Software Engineer", PROFESSIONAL_FRIENDLY>>}

\* variant of LastEntry that takes the first entry
LastEntryFirst(history) == history[1]

\* conversation_history[-1]
LastEntry(history) == history[Len(history)]

Remove(seq, i) == SubSeq(seq, 1, i - 1) \o SubSeq(seq, i + 1, Len(seq))

\* the statements among them that only read st.session_state into a local
\* or call the Interviewer on locals: what a run does from there to the
\* next check shows nowhere outside the run
LocalLines == {467, 488, 499, 522, 557, 589}

\* what a stop request leaves of the runs in flight: every run is asked to
\* stop; a run that stands at a statement with a check has either not
\* reached the check, and ends there, or has passed it, and goes on to the
\* next check, which matters when the statement writes
Stopped(rs) ==
    LET asked == [i \in DOMAIN rs |-> [rs[i] EXCEPT !.stop = TRUE]]
        checks == {i \in DOMAIN rs : ~rs[i].stop /\ rs[i].pc \in YieldLines}
    IN  {Remove(asked, j) : j \in checks} \cup
        (IF \E j \in checks : rs[j].pc \in LocalLines THEN {} ELSE {asked})

\* run i has executed its statement and goes on as `run`: a run asked to
\* stop ends at the next check
Goes(i, run) ==
    IF run.stop /\ run.pc \in YieldLines
    THEN Remove(runs, i)
    ELSE [runs EXCEPT ![i] = run]

\* current_turn['answer'] = answer on the entry a run holds
StoreAnswer(history, id, answer) ==
    [k \in DOMAIN history |->
        IF history[k].id = id THEN [history[k] EXCEPT !.answer = Some(answer)]
        ELSE history[k]]

\* current_turn['score'] = score on the entry a run holds
StoreScore(history, id, score) ==
    [k \in DOMAIN history |->
        IF history[k].id = id THEN [history[k] EXCEPT !.score = score]
        ELSE history[k]]

\* a click on a button: the runs in flight are asked to stop and a run
\* starts, which calls the handler of the button
Click(run) ==
    /\ \E rs \in Stopped(runs) :
          /\ Len(rs) < MaxRuns
          /\ runs' = Append(rs, run)
    /\ UNCHANGED <<session, conversation_history, enable_scoring, now, uuid, held,
                   out>>

\* the buttons, as the run that the click starts renders them: the start
\* button (150) always, the end button (159) and the interview interface
\* (51) when there is a session, the submit button (332) when the history
\* has a question (315)
UIClick ==
    \/ \E selection \in UISelections :
          Click(ScriptRun("start_new_interview", 467, Some(selection[1]),
                          Some(selection[2]), None))
    \/ /\ session # None
       /\ Click(ScriptRun("generate_new_question", 488, None, None, None))
    \/ /\ session # None
       /\ conversation_history # <<>>
       /\ \E answer_text \in UIAnswerTexts :
             Click(ScriptRun("process_user_answer", 522, None, None,
                             Some(answer_text)))
    \/ /\ session # None
       /\ Click(ScriptRun("skip_current_question", 557, None, None, None))
    \/ /\ session # None
       /\ Click(ScriptRun("end_current_interview", 589, None, None, None))

\* a widget without a handler changes: the runs in flight are asked to
\* stop, and the run that starts renders the page and ends
UIRerun ==
    /\ \E i \in DOMAIN runs : ~runs[i].stop
    /\ runs' \in Stopped(runs)
    /\ UNCHANGED <<session, conversation_history, enable_scoring, now, uuid, held,
                   out>>

\* start_new_interview 467-473; it goes on in generate_new_question (476)
UIStartNewInterview ==
    \E i \in DOMAIN runs :
       LET run == runs[i]
       IN  /\ run.pc \in {467, 472, 473}
           /\ UNCHANGED <<enable_scoring, held, out>>
           /\ CASE run.pc = 467 ->
                     /\ uuid + 1 <= MaxUiUuid
                     /\ \E time \in Clock :
                           /\ now' = time
                           /\ runs' = Goes(i, [run EXCEPT
                                 !.pc = 472,
                                 !.session = Some(start_interview_session(
                                     Get(run.position), Get(run.personality),
                                     Uuid(uuid + 1), time))])
                     /\ uuid' = uuid + 1
                     /\ UNCHANGED <<session, conversation_history>>
                [] run.pc = 472 ->
                     /\ session' = run.session
                     /\ runs' = Goes(i, [run EXCEPT !.pc = 473])
                     /\ UNCHANGED <<conversation_history, now, uuid>>
                [] run.pc = 473 ->
                     /\ conversation_history' = <<>>
                     /\ runs' = Goes(i, [run EXCEPT !.pc = 488])
                     /\ UNCHANGED <<session, now, uuid>>

\* generate_new_question 488-513, called by its button, by
\* start_new_interview (476) and by skip_current_question (562); without a
\* session, session.position raises (491) and the handler ends (516)
UIGenerateNewQuestion ==
    \E i \in DOMAIN runs :
       LET run == runs[i]
       IN  /\ run.pc \in {488, 499, 510}
           /\ UNCHANGED <<session, enable_scoring, now, held, out>>
           /\ CASE run.pc = 488 ->
                     /\ runs' = IF session = None
                                THEN Remove(runs, i)
                                ELSE Goes(i, [run EXCEPT !.pc = 499,
                                                         !.session = session])
                     /\ UNCHANGED <<conversation_history, uuid>>
                [] run.pc = 499 ->
                     /\ uuid + 2 <= MaxUiUuid
                     /\ \E outcome \in UIQuestionOutcomes :
                           LET s == Get(run.session)
                               request == UIRequest(s)
                               response == generate_question(request, s, outcome,
                                                             Uuid(uuid + 1))
                           IN  runs' = Goes(i, [run EXCEPT
                                  !.pc = 510,
                                  !.prompt =
                                     Some(_build_question_prompt(request, s)),
                                  !.turn = Some(HistoryEntry(Uuid(uuid + 2),
                                               response.question.text,
                                               None, None))])
                     /\ uuid' = uuid + 2
                     /\ UNCHANGED conversation_history
                [] run.pc = 510 ->
                     /\ Len(conversation_history) < MaxHistory
                     /\ conversation_history' =
                           Append(conversation_history, Get(run.turn))
                     /\ runs' = Remove(runs, i)
                     /\ UNCHANGED uuid

\* process_user_answer 522-549: without a question it ends (523, or the
\* IndexError of 527 caught at 551); st.spinner (534) stands between the
\* write of the answer (530) and the write of the score (546)
UIProcessUserAnswer ==
    \E i \in DOMAIN runs :
       LET run == runs[i]
       IN  /\ run.pc \in {522, 527, 530, 534}
           /\ UNCHANGED <<session, enable_scoring, now, uuid, held, out>>
           /\ CASE run.pc = 522 ->
                     /\ runs' = IF conversation_history = <<>>
                                THEN Remove(runs, i)
                                ELSE Goes(i, [run EXCEPT !.pc = 527])
                     /\ UNCHANGED conversation_history
                [] run.pc = 527 ->
                     /\ runs' = IF conversation_history = <<>>
                                THEN Remove(runs, i)
                                ELSE Goes(i, [run EXCEPT
                                        !.pc = 530,
                                        !.current_turn =
                                           Some(LastEntry(conversation_history).id)])
                     /\ UNCHANGED conversation_history
                [] run.pc = 530 ->
                     /\ conversation_history' =
                           StoreAnswer(conversation_history,
                                       Get(run.current_turn),
                                       Get(run.answer_text))
                     /\ runs' = IF enable_scoring
                                THEN Goes(i, [run EXCEPT !.pc = 534])
                                ELSE Remove(runs, i)
                [] run.pc = 534 ->
                     /\ conversation_history' =
                           StoreScore(conversation_history,
                                      Get(run.current_turn),
                                      Some(PlaceholderScore))
                     /\ runs' = Remove(runs, i)

\* skip_current_question 557-562: without a question it does nothing; it
\* goes on in generate_new_question (562)
UISkipCurrentQuestion ==
    \E i \in DOMAIN runs :
       LET run == runs[i]
       IN  /\ run.pc \in {557, 558, 559, 560}
           /\ UNCHANGED <<session, enable_scoring, now, uuid, held, out>>
           /\ CASE run.pc = 557 ->
                     /\ runs' = IF conversation_history = <<>>
                                THEN Remove(runs, i)
                                ELSE Goes(i, [run EXCEPT !.pc = 558])
                     /\ UNCHANGED conversation_history
                [] run.pc = 558 ->
                     /\ runs' = IF conversation_history = <<>>
                                THEN Remove(runs, i)
                                ELSE Goes(i, [run EXCEPT
                                        !.pc = 559,
                                        !.current_turn =
                                           Some(LastEntry(conversation_history).id)])
                     /\ UNCHANGED conversation_history
                [] run.pc = 559 ->
                     /\ conversation_history' =
                           StoreAnswer(conversation_history,
                                       Get(run.current_turn), SKIPPED)
                     /\ runs' = Goes(i, [run EXCEPT !.pc = 560])
                [] run.pc = 560 ->
                     /\ conversation_history' =
                           StoreScore(conversation_history,
                                      Get(run.current_turn), None)
                     /\ runs' = Goes(i, [run EXCEPT !.pc = 488])

\* end_current_interview 589-613: end_interview_session changes the session
\* the run has read (589) in place, so every local that refers to that
\* session sees the change; without a session it raises and the handler
\* ends (616); the two resets (610, 611) are two statements
UIEndCurrentInterview ==
    \E i \in DOMAIN runs :
       LET run == runs[i]
       IN  /\ run.pc \in {589, 592, 610, 611}
           /\ UNCHANGED <<enable_scoring, uuid, held, out>>
           /\ CASE run.pc = 589 ->
                     /\ runs' = Goes(i, [run EXCEPT !.pc = 592,
                                                    !.session = session])
                     /\ UNCHANGED <<session, conversation_history, now>>
                [] run.pc = 592 /\ run.session = None ->
                     /\ runs' = Remove(runs, i)
                     /\ UNCHANGED <<session, conversation_history, now>>
                [] run.pc = 592 /\ run.session # None ->
                     /\ \E time \in Clock :
                           LET ended == end_interview_session(
                                           Get(run.session), enable_scoring, time)
                               seen == [j \in DOMAIN runs |->
                                          IF /\ runs[j].session # None
                                             /\ Get(runs[j].session).id = ended.id
                                          THEN [runs[j] EXCEPT
                                                   !.session = Some(ended)]
                                          ELSE runs[j]]
                           IN  /\ now' = time
                               /\ session' =
                                     IF session # None
                                        /\ Get(session).id = ended.id
                                     THEN Some(ended) ELSE session
                               /\ runs' =
                                     IF run.stop THEN Remove(seen, i)
                                     ELSE [seen EXCEPT ![i].pc = 610]
                     /\ UNCHANGED conversation_history
                [] run.pc = 610 ->
                     /\ session' = None
                     /\ runs' = Goes(i, [run EXCEPT !.pc = 611])
                     /\ UNCHANGED <<conversation_history, now>>
                [] run.pc = 611 ->
                     /\ conversation_history' = <<>>
                     /\ runs' = Remove(runs, i)
                     /\ UNCHANGED <<session, now>>

NextUI ==
    \/ UIClick
    \/ UIRerun
    \/ UIStartNewInterview
    \/ UIGenerateNewQuestion
    \/ UIProcessUserAnswer
    \/ UISkipCurrentQuestion
    \/ UIEndCurrentInterview

SpecUI == Init /\ [][NextUI]_vars

\* the handlers one after the other: a click comes when no run is in flight
NextUISequence ==
    \/ runs = <<>> /\ UIClick
    \/ UIStartNewInterview
    \/ UIGenerateNewQuestion
    \/ UIProcessUserAnswer
    \/ UISkipCurrentQuestion
    \/ UIEndCurrentInterview

SpecUISequence == Init /\ [][NextUISequence]_vars

----------------------------------------------------------------------------
(* Properties *)

Ended(s) == s.end_time # None

ScoredIndexes(turns) == {i \in DOMAIN turns : turns[i].score # None}

RECURSIVE SumOver(_, _)
\* the sum of the overall scores of the turns at the given indexes
SumOver(turns, indexes) ==
    IF indexes = {} THEN Zero
    ELSE LET i == CHOOSE k \in indexes : TRUE
         IN  RatAdd(Get(turns[i].score).overall_score,
                    SumOver(turns, indexes \ {i}))

\* mean * count = sum, over fractions
IsMeanOf(mean, turns, indexes) ==
    LET sum == SumOver(turns, indexes)
    IN  mean.num * Cardinality(indexes) * sum.den = sum.num * mean.den

\* C1: end() on a session that has already ended is rejected with
\* InvalidState, and end_time and total_score keep the values of the first
\* end().
C1_EndAgainRejected ==
    [][(session # None /\ Ended(Get(session))
        /\ out'.op = "end_interview_session")
       => /\ out'.status = "InvalidState"
          /\ session' # None
          /\ Get(session').end_time = Get(session).end_time
          /\ Get(session').total_score = Get(session).total_score]_vars

\* C2: a successful ask() appends exactly one turn to the session, holding
\* the returned Question with no Answer and no Score, and leaves the earlier
\* turns as they were, so questions_asked grows by one.
C2_AskAppendsTurn ==
    [][(out'.op = "generate_question" /\ out'.status = "returned")
       => /\ session' # None
          /\ LET before == Get(session).conversation_turns
                 after == Get(session').conversation_turns
             IN  /\ questions_asked(Get(session')) = questions_asked(Get(session)) + 1
                 /\ SubSeq(after, 1, Len(before)) = before
                 /\ after[Len(after)].question = out'.value.question
                 /\ after[Len(after)].answer = None
                 /\ after[Len(after)].score = None]_vars

\* C5: score() attaches the Score it returns to the turn of the session that
\* holds the scored Answer, and changes the score of no other turn.
C5_ScoreAttached ==
    [][(out'.op = "score_answer" /\ out'.status = "returned")
       => /\ session' # None
          /\ LET before == Get(session).conversation_turns
                 after == Get(session').conversation_turns
             IN  /\ Len(after) = Len(before)
                 /\ \A i \in DOMAIN before :
                       IF before[i].answer = Some(out'.args.answer)
                       THEN after[i].score = Some(out'.value)
                       ELSE after[i].score = before[i].score]_vars

\* C7: once a session has ended, ask, converse, score and end on it are
\* rejected as invalid-state and leave the session as it was.
C7_EndedRejectsOperations ==
    [][(session # None /\ Ended(Get(session))
        /\ out'.op \in {"generate_question", "conduct_conversational_interview",
                        "score_answer", "end_interview_session"})
       => /\ out'.status = "InvalidState"
          /\ session' = session]_vars

\* C8: end() on an active session sets end_time to the current time and, when
\* scoring is enabled, sets total_score to the mean overall score of exactly
\* the scored turns; with no scored turn total_score stays None.
C8_EndComputesTotal ==
    [][(session # None /\ ~Ended(Get(session))
        /\ out'.op = "end_interview_session")
       => /\ out'.status = "returned"
          /\ session' # None
          /\ LET s == Get(session')
                 scored == ScoredIndexes(Get(session).conversation_turns)
             IN  /\ s.end_time = Some(now')
                 /\ s.conversation_turns = Get(session).conversation_turns
                 /\ enable_scoring =>
                       IF scored = {} THEN s.total_score = None
                       ELSE /\ s.total_score # None
                            /\ IsMeanOf(Get(s.total_score), s.conversation_turns,
                                        scored)]_vars

\* an ended session whose two turns are scored 6 and 8 and whose total is 7
C8_Witness ==
    /\ out.op = "end_interview_session"
    /\ enable_scoring
    /\ Len(out.value.conversation_turns) = 2
    /\ out.value.conversation_turns[1].score # None
    /\ out.value.conversation_turns[2].score # None
    /\ Get(out.value.conversation_turns[1].score).overall_score = Rat(6, 1)
    /\ Get(out.value.conversation_turns[2].score).overall_score = Rat(8, 1)
    /\ out.value.total_score = Some(Rat(7, 1))

OverallScores(turns) ==
    [i \in DOMAIN turns |-> Get(turns[i].score).overall_score]

\* C9: average_score is None exactly when no turn has a Score, and otherwise
\* is the sum of the overall scores of the scored turns divided by their
\* number (6 and 8 give 7); turns without a Score do not change it.
C9_AverageScore ==
    session # None =>
        LET s == Get(session)
            turns == s.conversation_turns
            scored == ScoredIndexes(turns)
            onlyScored == SelectSeq(turns, LAMBDA t : t.score # None)
        IN  /\ (scored = {}) <=> (average_score(s) = None)
            /\ scored # {} => IsMeanOf(Get(average_score(s)), turns, scored)
            /\ average_score(s) =
                  average_score([s EXCEPT !.conversation_turns = onlyScored])
            /\ OverallScores(onlyScored) = <<Rat(6, 1), Rat(8, 1)>>
                  => average_score(s) = Some(Rat(7, 1))

\* a session with one turn that has no Score and one scored 6: average 6
C9_Witness ==
    /\ session # None
    /\ Len(Get(session).conversation_turns) = 2
    /\ Get(session).conversation_turns[1].score = None
    /\ Get(session).conversation_turns[2].score # None
    /\ average_score(Get(session)) = Some(Rat(6, 1))

\* C3: after start, ask, answer, score and end on one session, whatever the
\* generation model returned, the session has questions_asked = 1,
\* answers_given = 1, total_score equal to the overall score of that turn,
\* and a duration of at least 0.
C3_ScenarioTotals ==
    held.step = "ended" =>
        LET s == Get(session)
        IN  /\ questions_asked(s) = 1
            /\ answers_given(s) = 1
            /\ s.total_score = Some(Get(held.score).overall_score)
            /\ duration_minutes(s) # None
            /\ RatLeq(Zero, Get(duration_minutes(s)))

IsQuestion(q) ==
    /\ DOMAIN q = {"id", "text", "type", "position", "difficulty", "category"}
    /\ q.type \in QuestionType
    /\ q.position \in InterviewPosition

\* C4: ask() returns a Question and never raises, whether the generation
\* model raises, returns the empty text or returns a text; when the request
\* names no question type the Question is behavioral, on the normal and on
\* the fallback path.
C4_AskAlwaysReturnsQuestion ==
    out.op = "generate_question" =>
        /\ out.status = "returned"
        /\ IsQuestion(out.value.question)
        /\ out.value.question.position = out.args.request.position
        /\ out.args.request.question_type = None
              => out.value.question.type = BEHAVIORAL
        /\ out.args.request.question_type # None
              => out.value.question.type = Get(out.args.request.question_type)

\* the generation model raised on a request without a type: behavioral
C4_Witness ==
    /\ out.op = "generate_question"
    /\ out.args.outcome = Raises
    /\ out.args.request.question_type = None
    /\ out.status = "returned"
    /\ out.value.question.type = BEHAVIORAL

InClosedRange(overall_score) ==
    /\ 0 <= overall_score.num
    /\ overall_score.num <= 10 * overall_score.den

\* C10: every Score in a reachable state, whether built directly, parsed
\* from a response or substituted after a failure, has an overall score from
\* 0 to 10; building a Score with an overall score outside it fails with a
\* validation error and yields no Score.
C10_ScoreWithinRange ==
    /\ out.op \in {"score_answer", "Score"} /\ out.status = "returned"
          => InClosedRange(out.value.overall_score)
    /\ out.op = "Score"
          => (out.status = "ValidationError"
                 <=> ~InClosedRange(out.args.overall_score))
    /\ out.op = "score_answer" => out.status = "returned"
    /\ session # None =>
          \A i \in ScoredIndexes(Get(session).conversation_turns) :
             InClosedRange(Get(Get(session).conversation_turns[i].score).overall_score)

\* Score(...) was called with 11 and failed
C10_Witness ==
    /\ out.op = "Score"
    /\ out.args.overall_score = Rat(11, 1)
    /\ out.status = "ValidationError"


\* C6: recording an answer on a turn that already has an Answer is
\* rejected: the Answer the turn has is left as it was, never overwritten.
C6_AnswerNotOverwritten ==
    [][\A k \in DOMAIN conversation_history \cap DOMAIN conversation_history' :
          (/\ conversation_history'[k].id = conversation_history[k].id
           /\ conversation_history[k].answer # None)
          => conversation_history'[k].answer = conversation_history[k].answer]_vars

----------------------------------------------------------------------------
(* C11: score_answer never raises; when the generation model raises or     *)
(* returns empty text, it returns the fixed fallback Score: overall_score  *)
(* 5.0, no criteria scores, the feedback "Unable to score this answer due  *)
(* to an error." and exactly one suggestion, for the answer it was given.  *)
C11_ScoreNeverRaises ==
    [][out'.op = "score_answer" =>
          /\ out'.status = "returned"
          /\ (out'.args.outcome = Raises \/ out'.args.outcome = Returns(<<>>)) =>
                /\ out'.value.answer_id = out'.args.answer.id
                /\ out'.value.overall_score = Rat(5, 1)
                /\ out'.value.criteria_scores = {}
                /\ out'.value.feedback = "Unable to score this answer due to an error."
                /\ Len(out'.value.suggestions) = 1]_vars

\* score_answer has returned the fallback Score after the model raised
C11_Witness ==
    /\ out.op = "score_answer"
    /\ out.args.outcome = Raises
    /\ out.status = "returned"
    /\ out.value.feedback = "Unable to score this answer due to an error."

----------------------------------------------------------------------------
\* a well-formed JSON object stands at position i of the response text
ValidBlockAt(text, i) ==
    /\ text[i] = LBRACE
    /\ \/ i + 1 <= Len(text) /\ text[i + 1] = RBRACE
       \/ i + 2 <= Len(text) /\ text[i + 1].tok = "members"
                              /\ text[i + 2] = RBRACE

ContainsValidBlock(text) == \E i \in DOMAIN text : ValidBlockAt(text, i)

(* C12: parsing a scoring response that holds no structured block, or only *)
(* blocks that cannot be parsed, yields the parser fallback Score:         *)
(* overall_score 5.0, no criteria scores, the fixed "Unable to parse       *)
(* detailed scoring..." feedback, the three fixed suggestions, and the     *)
(* answer id that was given.                                               *)
C12_ParserFallback ==
    [][(/\ out'.op = "_parse_scoring_response"
        /\ ~ContainsValidBlock(out'.args.response_text)) =>
          /\ out'.status = "returned"
          /\ out'.value.answer_id = out'.args.answer_id
          /\ out'.value.overall_score = Rat(5, 1)
          /\ out'.value.criteria_scores = {}
          /\ out'.value.feedback =
                "Unable to parse detailed scoring. General feedback: Consider providing more specific examples and structure in your responses."
          /\ out'.value.suggestions =
                <<"Use the STAR method for behavioral questions",
                  "Provide concrete examples",
                  "Structure your response clearly">>]_vars

\* the parser has returned its fallback for a block that is not JSON
C12_Witness ==
    /\ out.op = "_parse_scoring_response"
    /\ out.args.response_text = <<LBRACE, TEXT, RBRACE>>
    /\ out.args.answer_id = Id("a", 1)
    /\ out.value.answer_id = Id("a", 1)
    /\ out.value.overall_score = Rat(5, 1)

----------------------------------------------------------------------------
\* a block with all four fields, each of its declared type, the overall
\* score within [0, 10]
CompleteBlock(b) ==
    /\ b.overall_score.kind = "num"
    /\ InClosedRange(b.overall_score.val)
    /\ b.criteria_scores.kind = "obj"
    /\ b.feedback.kind = "str"
    /\ b.suggestions.kind = "list"

(* C13: parsing a scoring response whose text contains a valid structured  *)
(* block with overall_score in [0, 10], criteria_scores, feedback and      *)
(* suggestions yields a Score carrying exactly those four values, whatever *)
(* text surrounds the block.                                               *)
C13_BlockRoundTrips ==
    [][out'.op = "_parse_scoring_response" =>
          \A i \in DOMAIN out'.args.response_text :
             LET text == out'.args.response_text
             IN  (/\ ValidBlockAt(text, i)
                  /\ text[i + 1].tok = "members"
                  /\ CompleteBlock(text[i + 1].data)) =>
                    /\ out'.status = "returned"
                    /\ out'.value.overall_score = text[i + 1].data.overall_score.val
                    /\ out'.value.criteria_scores = text[i + 1].data.criteria_scores.val
                    /\ out'.value.feedback = text[i + 1].data.feedback.val
                    /\ out'.value.suggestions = text[i + 1].data.suggestions.val]_vars

----------------------------------------------------------------------------
\* text is raw without the spaces at its two ends
IsTrimOf(text, raw) ==
    /\ \E i \in 1..(Len(raw) + 1), j \in 0..Len(raw) :
          /\ text = SubSeq(raw, i, j)
          /\ \A k \in 1..(i - 1) : raw[k] = SPACE
          /\ \A k \in (j + 1)..Len(raw) : raw[k] = SPACE
    /\ text # <<>> => text[1] # SPACE /\ text[Len(text)] # SPACE

(* C14: conduct_conversational_interview never raises and never changes    *)
(* the session: when the generation model fails or returns empty text it   *)
(* returns a fixed generic message about continuing, otherwise the model's *)
(* text without surrounding whitespace; the session (turns, end_time,      *)
(* total_score) is the same before and after.                              *)
C14_ConverseKeepsSession ==
    [][out'.op = "conduct_conversational_interview" =>
          /\ out'.status = "returned"
          /\ session' = session
          /\ out'.args.outcome = Raises =>
                out'.value.text =
                   <<"Thank you for your response. Let's continue with the next question.">>
          /\ out'.args.outcome = Returns(<<>>) =>
                out'.value.text =
                   <<"I appreciate your response. Let me ask you another question to continue our conversation.">>
          /\ (out'.args.outcome.kind = "text" /\ out'.args.outcome.text # <<>>) =>
                IsTrimOf(out'.value.text, out'.args.outcome.text)]_vars

\* a reply with leading whitespace has come back trimmed, on a session that
\* has turns
C14_Witness ==
    /\ out.op = "conduct_conversational_interview"
    /\ out.args.outcome = Returns(<<SPACE, "a">>)
    /\ out.value.text = <<"a">>
    /\ session # None
    /\ Get(session).conversation_turns # <<>>

----------------------------------------------------------------------------
(* C15: start_interview_session is callable only when no session has been  *)
(* started: it then yields a new Active session with the given position    *)
(* and personality, no turns, end_time and total_score absent; a start     *)
(* while a session is Active or Ended is rejected and leaves that session  *)
(* as it was.                                                              *)
C15_StartOnlyFromNotStarted ==
    [][out'.op = "start_interview_session" =>
          IF session = None
          THEN /\ out'.status = "returned"
               /\ session' = Some(out'.value)
               /\ out'.value.position = out'.args[1]
               /\ out'.value.interviewer_personality = out'.args[2]
               /\ out'.value.conversation_turns = <<>>
               /\ out'.value.end_time = None
               /\ out'.value.total_score = None
          ELSE /\ out'.status = "InvalidState"
               /\ session' = session]_vars

----------------------------------------------------------------------------
\* a waveform with samples, all of them zero
AllZero(samples) == samples # <<>> /\ \A i \in DOMAIN samples : samples[i] = Zero

\* array is samples with every sample divided by peak
IsQuotientBy(array, samples, peak) ==
    /\ DOMAIN array = DOMAIN samples
    /\ \A k \in DOMAIN samples :
          array[k].num * peak.num * samples[k].den
             = samples[k].num * peak.den * array[k].den

(* C16: normalizing an all-zero waveform raises nothing and returns the    *)
(* waveform unchanged; a waveform with a sample other than zero comes back *)
(* divided by its maximum absolute sample, which is then greater than      *)
(* zero.                                                                   *)
C16_SilentWaveformUnchanged ==
    [][(/\ out'.op = "_prepare_audio_data"
        /\ out'.args.audio_input.audio_bytes.spare = 0
        /\ out'.args.audio_input.audio_bytes.samples # <<>>) =>
          LET samples == out'.args.audio_input.audio_bytes.samples
          IN  /\ out'.status = "returned"
              /\ AllZero(samples) => out'.value.array = samples
              /\ ~AllZero(samples) =>
                    \E i \in DOMAIN samples :
                       /\ samples[i] # Zero
                       /\ \A k \in DOMAIN samples :
                             RatLeq(RatAbs(samples[k]), RatAbs(samples[i]))
                       /\ IsQuotientBy(out'.value.array, samples,
                                       RatAbs(samples[i]))]_vars

\* a silent waveform of two samples has come back as it was
C16_Witness ==
    /\ out.op = "_prepare_audio_data"
    /\ out.args.audio_input.audio_bytes.samples = <<Zero, Zero>>
    /\ out.status = "returned"
    /\ out.value.array = <<Zero, Zero>>

----------------------------------------------------------------------------
(* C17: when the Whisper model or the preparation of the audio fails (or   *)
(* the file is missing), transcribe_audio_data and transcribe_audio_file   *)
(* leave with an error and no TranscriptionResult; a result that is        *)
(* returned carries the text the Whisper model gave, trimmed.              *)
C17_TranscribeFailurePropagates ==
    [][out'.op \in {"transcribe_audio_data", "transcribe_audio_file"} =>
          LET failed ==
                 \/ out'.args.outcome = Raises
                 \/ /\ out'.op = "transcribe_audio_data"
                    /\ \/ out'.args.audio_input.audio_bytes.spare # 0
                       \/ out'.args.audio_input.audio_bytes.samples = <<>>
                 \/ /\ out'.op = "transcribe_audio_file"
                    /\ ~out'.args.exists
          IN  /\ failed => /\ out'.status # "returned"
                           /\ "text" \notin DOMAIN out'.value
              /\ out'.status = "returned" =>
                    /\ out'.args.outcome.kind = "result"
                    /\ IsTrimOf(out'.value.text, out'.args.outcome.text)]_vars

\* transcribe_audio_data has left with the error of the Whisper model, on
\* audio that was prepared without error
C17_Witness ==
    /\ out.op = "transcribe_audio_data"
    /\ out.args.audio_input.audio_bytes = AudioBytes(<<Zero, Zero>>, 0)
    /\ out.args.outcome = Raises
    /\ out.status = "RuntimeError"

----------------------------------------------------------------------------
(* C18: every response generate_question returns, on the normal and on the *)
(* fallback path, carries the guidance with the Question: exactly three    *)
(* follow-up prompts, the tips of the Question's type (the generic ones    *)
(* for a type other than behavioral, technical and situational) and the    *)
(* fixed expected key points.                                              *)
C18_GuidanceOnEveryResponse ==
    [][out'.op = "generate_question" =>
          /\ out'.status = "returned"
          /\ Len(out'.value.follow_up_questions) = 3
          /\ out'.value.tips = _generate_tips(out'.value.question)
          /\ out'.value.tips # <<>>
          /\ out'.value.expected_key_points = _generate_expected_points
          /\ Len(out'.value.expected_key_points) = 5]_vars

----------------------------------------------------------------------------
\* the text is one JSON object and nothing else
IsLoneBlock(text) ==
    \/ text = <<LBRACE, RBRACE>>
    \/ Len(text) = 3 /\ ValidBlockAt(text, 1) /\ text[2].tok = "members"

LoneBlock(text) == IF text = <<LBRACE, RBRACE>> THEN EmptyObject ELSE text[2].data

\* an overall_score that float() or Score(...) refuses
BadOverall(v) ==
    \/ v.kind \in {"null", "obj", "list"}
    \/ v.kind = "str" /\ StrToFloat(v.val) = None
    \/ v.kind = "num" /\ ~InClosedRange(v.val)

\* a field that is present with another JSON type than the Score declares
BadShape(b) ==
    \/ b.criteria_scores.kind \notin {"absent", "obj"}
    \/ b.feedback.kind \notin {"absent", "str"}
    \/ b.suggestions.kind \notin {"absent", "list"}

(* C19: _parse_scoring_response never raises, for any response text: a     *)
(* block whose overall_score is outside [0, 10], not a number or null, or  *)
(* whose fields have the wrong shape, yields the parser fallback Score     *)
(* (5.0, the "Unable to parse detailed scoring..." feedback) and no        *)
(* validation or parse error.                                              *)
C19_ParserNeverRaises ==
    [][out'.op = "_parse_scoring_response" =>
          /\ out'.status = "returned"
          /\ InClosedRange(out'.value.overall_score)
          /\ (/\ IsLoneBlock(out'.args.response_text)
              /\ \/ BadOverall(LoneBlock(out'.args.response_text).overall_score)
                 \/ BadShape(LoneBlock(out'.args.response_text))) =>
                /\ out'.value.answer_id = out'.args.answer_id
                /\ out'.value.overall_score = Rat(5, 1)
                /\ out'.value.criteria_scores = {}
                /\ out'.value.feedback =
                      "Unable to parse detailed scoring. General feedback: Consider providing more specific examples and structure in your responses."
                /\ Len(out'.value.suggestions) = 3]_vars

\* a block with overall_score 11 has been answered with the fallback Score
C19_Witness ==
    /\ out.op = "_parse_scoring_response"
    /\ out.args.response_text =
          <<LBRACE, Members(FullBlock(JNum(Rat(11, 1)))), RBRACE>>
    /\ out.status = "returned"
    /\ out.value.overall_score = Rat(5, 1)
    /\ out.value.criteria_scores = {}

----------------------------------------------------------------------------
(* C20: when the block is found and parses, each field missing from it     *)
(* takes its default independently of the others (overall_score 5.0,       *)
(* criteria_scores empty, feedback "No feedback provided", suggestions     *)
(* empty) and each field present is taken from the block.                  *)
C20_FieldDefaults ==
    [][(/\ out'.op = "_parse_scoring_response"
        /\ IsLoneBlock(out'.args.response_text)
        /\ ~BadOverall(LoneBlock(out'.args.response_text).overall_score)
        /\ ~BadShape(LoneBlock(out'.args.response_text))) =>
          LET b == LoneBlock(out'.args.response_text)
          IN  /\ out'.status = "returned"
              /\ out'.value.answer_id = out'.args.answer_id
              /\ out'.value.overall_score =
                    (CASE b.overall_score.kind = "absent" -> Rat(5, 1)
                       [] b.overall_score.kind = "num" -> b.overall_score.val
                       [] b.overall_score.kind = "str" -> Rat(9, 1))
              /\ out'.value.criteria_scores =
                    (IF b.criteria_scores.kind = "absent" THEN {}
                     ELSE b.criteria_scores.val)
              /\ out'.value.feedback =
                    (IF b.feedback.kind = "absent" THEN "No feedback provided"
                     ELSE b.feedback.val)
              /\ out'.value.suggestions =
                    (IF b.suggestions.kind = "absent" THEN <<>>
                     ELSE b.suggestions.val)]_vars

\* a block with criteria_scores and suggestions only has been parsed
C20_Witness ==
    /\ out.op = "_parse_scoring_response"
    /\ out.args.response_text =
          <<LBRACE,
            Members(Block(JAbsent, JObj({<<"clarity", Rat(8, 1)>>}), JAbsent,
                          JList(<<"A">>))),
            RBRACE>>
    /\ out.value.overall_score = Rat(5, 1)
    /\ out.value.criteria_scores = {<<"clarity", Rat(8, 1)>>}
    /\ out.value.feedback = "No feedback provided"
    /\ out.value.suggestions = <<"A">>

----------------------------------------------------------------------------
\* generate_question took the fallback path
OnFallbackPath(result) ==
    result.args.outcome = Raises \/ result.args.outcome = Returns(<<>>)

(* C21: the text of the fallback question depends on the request's         *)
(* question type alone: behavioral, technical, situational and             *)
(* problem-solving have their own canned text, every other case (no type,  *)
(* leadership, culture fit) has the behavioral text.                       *)
C21_FallbackTextByType ==
    [][(out'.op = "generate_question" /\ OnFallbackPath(out')) =>
          LET question_type == out'.args.request.question_type
              text == out'.value.question.text
          IN  /\ question_type = Some(TECHNICAL) =>
                    text = <<"How would you approach debugging a complex system issue?">>
              /\ question_type = Some(SITUATIONAL) =>
                    text = <<"If you were given a project with unclear requirements, how would you proceed?">>
              /\ question_type = Some(PROBLEM_SOLVING) =>
                    text = <<"Describe a problem you solved that required creative thinking.">>
              /\ question_type \in {None, Some(BEHAVIORAL), Some(LEADERSHIP),
                                    Some(CULTURE_FIT)} =>
                    text = <<"Tell me about a time when you had to overcome a significant challenge at work.">>]_vars

\* a problem-solving request has been answered with its canned question
C21_Witness ==
    /\ out.op = "generate_question"
    /\ out.args.outcome = Raises
    /\ out.args.request.question_type = Some(PROBLEM_SOLVING)
    /\ out.value.question.text =
          <<"Describe a problem you solved that required creative thinking.">>

----------------------------------------------------------------------------
(* C22: the question prompt built for the n-th question of a session lists *)
(* the texts of the n-1 questions asked before in that session, in the     *)
(* order asked (none for the first question).                              *)
C22_PromptListsPriorQuestions ==
    [][\A i \in DOMAIN runs \cap DOMAIN runs' :
          (runs[i].pc = 499 /\ runs'[i].pc = 510 /\ uuid' = uuid + 2
           /\ Get(runs'[i].turn).id = Uuid(uuid')) =>
             Get(runs'[i].prompt).previous_questions =
                [k \in DOMAIN conversation_history |->
                    conversation_history[k].question]]_vars

----------------------------------------------------------------------------
----------------------------------------------------------------------------
(* C24: total_score is set only on a session that has ended: while         *)
(* end_time is absent total_score is absent, and only                      *)
(* end_interview_session changes the total_score of a session.             *)
C24_TotalOnlyAfterEnd ==
    [][/\ session' # None =>
             (Get(session').end_time = None => Get(session').total_score = None)
       /\ (/\ session # None
           /\ session' # None
           /\ Get(session').id = Get(session).id
           /\ Get(session').total_score # Get(session).total_score) =>
             out'.op = "end_interview_session"]_vars

\* a session with scored turns has been ended and has its total
C24_Witness ==
    /\ out.op = "end_interview_session"
    /\ session # None
    /\ Get(session).end_time # None
    /\ Get(session).total_score # None

----------------------------------------------------------------------------
Difficulties == {"easy", "medium", "hard"}

(* C25: every Question has a difficulty among easy, medium and hard:       *)
(* constructing a Question or an InterviewRequest with another difficulty  *)
(* is rejected, and a Question that is constructed carries one of the      *)
(* three.                                                                  *)
C25_DifficultyConstrained ==
    [][/\ out'.op = "Question" =>
             IF out'.args.difficulty \in Difficulties
             THEN out'.status = "returned" /\ out'.value.difficulty \in Difficulties
             ELSE out'.status = "ValidationError"
       /\ (/\ out'.op = "InterviewRequest"
           /\ out'.args.difficulty # None
           /\ Get(out'.args.difficulty) \notin Difficulties) =>
             out'.status = "ValidationError"]_vars

----------------------------------------------------------------------------
(* C26: once end_interview_session has completed with scoring enabled, the *)
(* stored total_score equals the derived average_score (both absent, or    *)
(* the same number), and stays equal while the turns stay as they are.     *)
C26_TotalEqualsAverage ==
    (session # None /\ enable_scoring /\ Get(session).end_time # None) =>
       Get(session).total_score = average_score(Get(session))

\* an ended session with an unscored and a scored turn: total and average
\* are the same number
C26_Witness ==
    /\ out.op = "end_interview_session"
    /\ enable_scoring
    /\ session # None
    /\ Get(session).end_time # None
    /\ Len(Get(session).conversation_turns) = 2
    /\ Get(session).conversation_turns[1].score = None
    /\ Get(session).total_score # None
    /\ Get(session).total_score = average_score(Get(session))

----------------------------------------------------------------------------
(* C27: the Question generate_question returns has a text that is not      *)
(* empty, whatever string the generation model returned, texts of only     *)
(* whitespace or quote characters included.                                *)
C27_QuestionTextNotEmpty ==
    [][out'.op = "generate_question" =>
          /\ out'.status = "returned"
          /\ out'.value.question.text # <<>>]_vars

----------------------------------------------------------------------------
(* C28: every Score score_answer returns has answer_id equal to the id of  *)
(* the answer it was given, on the three paths: block parsed, parser       *)
(* fallback, fallback after a failure of the generation model.             *)
C28_ScoreNamesAnswer ==
    [][out'.op = "score_answer" =>
          /\ out'.status = "returned"
          /\ out'.value.answer_id = out'.args.answer.id]_vars

\* a parsed Score (overall 9) names the answer that was scored
C28_Witness ==
    /\ out.op = "score_answer"
    /\ out.args.outcome =
          Returns(<<LBRACE, Members(FullBlock(JNum(Rat(9, 1)))), RBRACE>>)
    /\ out.value.overall_score = Rat(9, 1)
    /\ out.value.answer_id = out.args.answer.id

----------------------------------------------------------------------------
(* C29: in the UI flow, the number of entries of conversation_history is   *)
(* the questions_asked of the current session, and the number of entries   *)
(* with an answer is its answers_given.                                    *)
C29_HistoryMatchesSession ==
    session # None =>
       /\ Len(conversation_history) = questions_asked(Get(session))
       /\ Cardinality({i \in DOMAIN conversation_history :
                          conversation_history[i].answer # None})
             = answers_given(Get(session))

----------------------------------------------------------------------------
(* C30: in the UI conversation_history, with the handlers called one after *)
(* the other, an entry has a score only if it has an answer; an answer or  *)
(* a skip changes the last entry only; a skip sets the last entry's answer *)
(* to "[Skipped]" and removes its score before its new entry is appended.  *)
C30_HistoryEntries ==
    [][/\ \A k \in DOMAIN conversation_history' :
             conversation_history'[k].score # None =>
                conversation_history'[k].answer # None
       /\ \A k \in 1..(Len(conversation_history) - 1) :
             (k \in DOMAIN conversation_history'
              /\ conversation_history'[k].id = conversation_history[k].id)
             => conversation_history'[k] = conversation_history[k]
       /\ \A i \in DOMAIN runs :
             LET n == Len(conversation_history)
             IN  /\ (/\ runs[i].handler = "skip_current_question"
                     /\ runs[i].pc = 560
                     /\ runs' # runs)
                    => /\ n > 0
                       /\ conversation_history'[n].answer = Some(SKIPPED)
                       /\ conversation_history'[n].score = None
                 /\ (/\ runs[i].handler = "skip_current_question"
                     /\ runs[i].pc = 510
                     /\ conversation_history' =
                           Append(conversation_history, Get(runs[i].turn)))
                    => /\ n > 0
                       /\ conversation_history[n].answer = Some(SKIPPED)
                       /\ conversation_history[n].score = None]_vars

\* an answered and scored question has been skipped and the next question
\* has been appended
C30_Witness ==
    /\ runs = <<>>
    /\ enable_scoring
    /\ Len(conversation_history) = 2
    /\ conversation_history[1].answer = Some(SKIPPED)
    /\ conversation_history[1].score = None
    /\ conversation_history[2].answer = None

====
